---- MODULE Spec2Model ----
(***************************************************************************)
(* Model of the storage-and-recovery engine of dfs_web_interface.py:       *)
(* Node (store_chunk / retrieve_chunk / fail) and DFS (upload_file,        *)
(* download_file, monitor_nodes, recover_data, get_status).                *)
(*                                                                         *)
(* Scale.  The engine has its five nodes and its replication factor of     *)
(* two.  Node.capacity (100 in the source) and DFS.chunk_size (1024) are   *)
(* scaled down to Capacity and ChunkSize, so that full nodes and files of  *)
(* several chunks are reached by a bounded search; everything the code     *)
(* does with them is a comparison with, or a slicing by, the value.        *)
(*                                                                         *)
(* Granularity.  Spec takes upload_file, download_file and get_status as   *)
(* single steps of a request thread, and the monitor thread's fail() and   *)
(* recover_data() as separate calls.  recover_data advances one iteration  *)
(* of its loop over metadata[file_hash] per step, because that loop need   *)
(* not end; request calls are taken between the monitor's calls, not       *)
(* inside the loop.                                                        *)
(*                                                                         *)
(* LiveSpec is Spec with the loop of recover_data kept finite-state and    *)
(* the monitor thread fair, for the termination of recover_data.  RaceSpec *)
(* runs upload_file statement by statement against the monitor thread.     *)
(***************************************************************************)
EXTENDS Integers, Sequences, FiniteSets, TLC

\* DFS(num_nodes=5, replication_factor=2)
NumNodes == 5
ReplicationFactor == 2

\* Scaled Node.capacity and DFS.chunk_size
Capacity == 2
ChunkSize == 2

\* Bounds of the search: length and number of the contents uploaded, length of a
\* metadata list, number of upload_file and of fail() calls.
MaxLen == 3
MaxVariant == 2
MaxMeta == 10
MaxUploads == 2
MaxFails == 2

Nodes == 0 .. (NumNodes - 1)
Names == {"a", "b"}
\* The contents uploaded: for every length up to MaxLen, MaxVariant byte strings
\* that differ from each other in every byte and change from byte to byte.
ContentOf(l, v) == [i \in 1 .. l |-> ((i + v) % 2) + 1 + 2 * (v \div 2)]
Contents == {ContentOf(l, v) : l \in 0 .. MaxLen, v \in 0 .. (MaxVariant - 1)}

VARIABLES
  active,    \* node_id -> Node.active
  storage,   \* node_id -> Node.storage, a dict chunk_id -> data
  metadata,  \* DFS.metadata: the dict as its items in insertion order
  mon,       \* position of the monitor thread (monitor_nodes / recover_data)
  pre,       \* history: the engine state just before the last fail()
  calls,     \* history: how many upload_file and fail calls were made
  uploaded,  \* history: per name, how often it was uploaded and its latest content
  last,      \* history: the last call made, its arguments and its result
  thr        \* position of each request thread inside upload_file (RaceSpec)

vars == <<active, storage, metadata, mon, pre, calls, uploaded, last, thr>>

----------------------------------------------------------------------------
(* Values *)

None == [isNone |-> TRUE, data |-> <<>>]
Some(d) == [isNone |-> FALSE, data |-> d]

\* Python truthiness of `bytes | None`: None and b'' are falsy.
Truthy(v) == (~v.isNone) /\ v.data # <<>>

Min(a, b) == IF a < b THEN a ELSE b

\* hashlib.sha256(filename.encode()).hexdigest(): an injective tag of the name
\* (collision-free on the names used); never the name itself.
file_hash_of(filename) == <<"sha256", filename>>

Hashes == {file_hash_of(nm) : nm \in Names}

\* str(i): the decimal digits of i, most significant first.
RECURSIVE IntToStr(_)
IntToStr(i) == IF i < 10 THEN <<i>> ELSE IntToStr(i \div 10) \o <<i % 10>>

\* int(s) for a digit string s.
RECURSIVE StrToInt(_)
StrToInt(s) ==
  IF Len(s) = 0 THEN 0
  ELSE 10 * StrToInt(SubSeq(s, 1, Len(s) - 1)) + s[Len(s)]

\* f"{file_hash}_chunk_{i}"
chunk_id_of(file_hash, i) == [hash |-> file_hash, sep |-> "_chunk_", idx |-> IntToStr(i)]

\* int(chunk_id.split('_chunk_')[1])
SeqNumber(chunk_id) == StrToInt(chunk_id.idx)

\* [content[i:i+chunk_size] for i in range(0, len(content), chunk_size)]
SplitChunks(content) ==
  LET n == (Len(content) + ChunkSize - 1) \div ChunkSize
  IN  [k \in 1 .. n |->
         SubSeq(content, (k - 1) * ChunkSize + 1, Min(k * ChunkSize, Len(content)))]

----------------------------------------------------------------------------
(* Node *)

EmptyStorage == [c \in {} |-> <<>>]

StoreChunkInactive(st, act, chunk_id, data) ==
  IF Cardinality(DOMAIN st) < Capacity
    THEN [ok |-> TRUE, storage |-> (chunk_id :> data) @@ st]
    ELSE [ok |-> FALSE, storage |-> st]

\* Node.store_chunk on a node with storage st and active flag act.
StoreChunk(st, act, chunk_id, data) ==
  IF Cardinality(DOMAIN st) < Capacity /\ act
    THEN [ok |-> TRUE, storage |-> (chunk_id :> data) @@ st]
    ELSE [ok |-> FALSE, storage |-> st]

\* Node.retrieve_chunk: storage.get(chunk_id) if active else None.
RetrieveChunk(st, act, chunk_id) ==
  IF act /\ chunk_id \in DOMAIN st THEN Some(st[chunk_id]) ELSE None

NodeFailToggle(act, n) == [act EXCEPT ![n] = ~act[n]]

\* Node.fail on node n.
NodeFail(act, n) == [act EXCEPT ![n] = FALSE]

----------------------------------------------------------------------------
(* DFS.metadata, a defaultdict(list) *)

MetaKeys(md) == {md[k].key : k \in 1 .. Len(md)}

MetaIndex(md, h) == CHOOSE k \in 1 .. Len(md) : md[k].key = h

\* metadata[h] where h is a key.
MetaGet(md, h) == md[MetaIndex(md, h)].chunks

\* metadata[h] = chunks for a key h.
MetaSet(md, h, chunks) == [md EXCEPT ![MetaIndex(md, h)].chunks = chunks]

\* metadata[h].append(rec): a missing key is created with an empty list first.
MetaAppend(md, h, rec) ==
  IF h \in MetaKeys(md)
    THEN MetaSet(md, h, Append(MetaGet(md, h), rec))
    ELSE Append(md, [key |-> h, chunks |-> <<rec>>])

MetaLen(md, h) == IF h \in MetaKeys(md) THEN Len(MetaGet(md, h)) ELSE 0

\* The dict after evaluating metadata[h]: a defaultdict(list) inserts a missing
\* key with an empty list.
MetaSubscript(md, h) ==
  IF h \in MetaKeys(md) THEN md ELSE Append(md, [key |-> h, chunks |-> <<>>])

----------------------------------------------------------------------------
(* DFS.upload_file *)

Load(st, n) == Cardinality(DOMAIN st[n])

\* Insert node n behind every node of the sorted list s whose key is <= its own:
\* taking the nodes in list order, this is a stable sort.
InsertByLoad(s, n, st) ==
  LET k == Cardinality({i \in 1 .. Len(s) : Load(st, s[i]) <= Load(st, n)})
  IN  SubSeq(s, 1, k) \o <<n>> \o SubSeq(s, k + 1, Len(s))

RECURSIVE SortFrom(_, _, _)
SortFrom(n, acc, st) ==
  IF n = NumNodes THEN acc ELSE SortFrom(n + 1, InsertByLoad(acc, n, st), st)

NodeListOrder(st) == [k \in 1 .. NumNodes |-> k - 1]

\* sorted(self.nodes, key=lambda x: len(x.storage)): the node ids, least loaded
\* first, ties in list (node id) order.
SortedByLoad(st) == SortFrom(0, <<>>, st)

PlaceReplicasNoBreak(st, act, order, k, recs, chunk_id, data) ==
  LET accepted == SelectSeq(order, LAMBDA n : StoreChunk(st[n], act[n], chunk_id, data).ok)
  IN  [storage |-> [n \in Nodes |->
                      StoreChunk(st[n], act[n], chunk_id, data).storage],
       recs |-> [j \in 1 .. Len(accepted) |-> <<accepted[j], chunk_id>>]]

\* Lines 45-50: offer the chunk to the nodes of `order` from position k on until
\* replication_factor of them have accepted; recs are the records appended.
RECURSIVE PlaceReplicas(_, _, _, _, _, _, _)
PlaceReplicas(st, act, order, k, recs, chunk_id, data) ==
  IF k > Len(order) THEN [storage |-> st, recs |-> recs]
  ELSE LET n == order[k]
           r == StoreChunk(st[n], act[n], chunk_id, data)
       IN  IF r.ok
             THEN LET st2 == [st EXCEPT ![n] = r.storage]
                      recs2 == Append(recs, <<n, chunk_id>>)
                  IN  IF Len(recs2) = ReplicationFactor
                        THEN [storage |-> st2, recs |-> recs2]
                        ELSE PlaceReplicas(st2, act, order, k + 1, recs2, chunk_id, data)
             ELSE PlaceReplicas(st, act, order, k + 1, recs, chunk_id, data)

RECURSIVE MetaAppendAll(_, _, _)
MetaAppendAll(md, h, recs) ==
  IF recs = <<>> THEN md
  ELSE MetaAppendAll(MetaAppend(md, h, Head(recs)), h, Tail(recs))

\* The nodes that accept a store right now.
Accepting(st, act) == {n \in Nodes : act[n] /\ Load(st, n) < Capacity}

\* Lines 42-52: chunks i .. of the file, in order.  placed is the history of the
\* call: per chunk, the records appended and, as of the start of its placement,
\* how many nodes were accepting, which ones, and every node's chunk count.
RECURSIVE UploadChunks(_, _, _, _, _, _, _)
UploadChunks(st, act, md, h, chunks, i, placed) ==
  IF i > Len(chunks) THEN [storage |-> st, metadata |-> md, placed |-> placed]
  ELSE LET chunk_id == chunk_id_of(h, i - 1)
           p == PlaceReplicas(st, act, SortedByLoad(st), 1, <<>>, chunk_id, chunks[i])
       IN  UploadChunks(p.storage, act, MetaAppendAll(md, h, p.recs), h, chunks, i + 1,
                        Append(placed, [recs |-> p.recs,
                                        avail |-> Cardinality(Accepting(st, act)),
                                        accepting |-> Accepting(st, act),
                                        loads |-> [n \in Nodes |-> Load(st, n)]]))

\* DFS.upload_file(filename, content) on the engine state (st, act, md).
UploadFile(st, act, md, filename, content) ==
  UploadChunks(st, act, md, file_hash_of(filename), SplitChunks(content), 1, <<>>)

----------------------------------------------------------------------------
(* DFS.download_file *)

\* chunks[chunk_id] = data on a dict kept as its items in insertion order.
DictSet(d, chunk_id, data) ==
  IF \E k \in 1 .. Len(d) : d[k].chunk_id = chunk_id
    THEN [k \in 1 .. Len(d) |->
            IF d[k].chunk_id = chunk_id THEN [d[k] EXCEPT !.data = data] ELSE d[k]]
    ELSE Append(d, [chunk_id |-> chunk_id, data |-> data])

\* Lines 59-64: the dict of fetched chunks after the records j .. of the list.
RECURSIVE FetchChunks(_, _, _, _, _)
FetchChunks(st, act, recs, j, d) ==
  IF j > Len(recs) THEN d
  ELSE LET node_id == recs[j][1]
           chunk_id == recs[j][2]
           chunk_data == RetrieveChunk(st[node_id], act[node_id], chunk_id)
       IN  FetchChunks(st, act, recs, j + 1,
                       IF Truthy(chunk_data) THEN DictSet(d, chunk_id, chunk_data.data)
                                             ELSE d)

InsertBySeq(s, item) ==
  LET k == Cardinality({i \in 1 .. Len(s) :
                          SeqNumber(s[i].chunk_id) <= SeqNumber(item.chunk_id)})
  IN  SubSeq(s, 1, k) \o <<item>> \o SubSeq(s, k + 1, Len(s))

RECURSIVE SortItemsFrom(_, _, _)
SortItemsFrom(d, k, acc) ==
  IF k > Len(d) THEN acc ELSE SortItemsFrom(d, k + 1, InsertBySeq(acc, d[k]))

UnsortedChunks(d) == d

\* sorted(chunks.items(), key=lambda x: int(x[0].split('_chunk_')[1]))
SortedChunks(d) == SortItemsFrom(d, 1, <<>>)

\* b''.join(chunk for _, chunk in sorted_chunks)
RECURSIVE Join(_)
Join(items) == IF items = <<>> THEN <<>> ELSE Head(items).data \o Join(Tail(items))

\* The sorted_chunks of download_file (<<>> when it returns None before sorting).
DownloadSorted(st, act, md, file_hash) ==
  IF file_hash \notin MetaKeys(md) THEN <<>>
  ELSE SortedChunks(FetchChunks(st, act, MetaGet(md, file_hash), 1, <<>>))

DownloadMetaNoGuard(md, file_hash) == MetaSubscript(md, file_hash)

\* The metadata dict after download_file(file_hash): line 56 tests the key with
\* `in`, which inserts nothing, and line 60 is reached for existing keys only.
DownloadMeta(md, file_hash) ==
  IF file_hash \notin MetaKeys(md) THEN md ELSE MetaSubscript(md, file_hash)

\* DFS.download_file(file_hash) on the engine state (st, act, md).
DownloadFile(st, act, md, file_hash) ==
  IF file_hash \notin MetaKeys(md) THEN None
  ELSE LET chunks == FetchChunks(st, act, MetaGet(md, file_hash), 1, <<>>)
       IN  IF chunks = <<>> THEN None ELSE Some(Join(SortedChunks(chunks)))

----------------------------------------------------------------------------
(* DFS.get_status *)

GetStatus(st, act, md) ==
  [nodes |-> [k \in 1 .. NumNodes |->
                [id |-> k - 1, active |-> act[k - 1], chunks |-> Load(st, k - 1)]],
   files |-> [k \in 1 .. Len(md) |-> <<md[k].key, Len(md[k].chunks)>>]]

----------------------------------------------------------------------------
(* DFS.recover_data *)

RECURSIVE AffectedIn(_, _, _, _)
AffectedIn(h, recs, j, failed_node_id) ==
  IF j > Len(recs) THEN <<>>
  ELSE (IF recs[j][1] = failed_node_id THEN <<<<h, recs[j][2]>>>> ELSE <<>>)
       \o AffectedIn(h, recs, j + 1, failed_node_id)

\* Lines 81-82: (file_hash, chunk_id) for every record of the failed node, files in
\* dict order, records in list order.
RECURSIVE AffectedChunks(_, _, _)
AffectedChunks(md, k, failed_node_id) ==
  IF k > Len(md) THEN <<>>
  ELSE AffectedIn(md[k].key, md[k].chunks, 1, failed_node_id)
       \o AffectedChunks(md, k + 1, failed_node_id)

RECURSIVE ReplicateToUnchecked(_, _, _, _, _, _)
ReplicateToUnchecked(st, act, n, node_id, chunk_id, chunk_data) ==
  IF n = NumNodes THEN [storage |-> st, recs |-> <<>>]
  ELSE IF act[n] /\ n # node_id
         THEN [storage |-> [st EXCEPT ![n] =
                              StoreChunk(st[n], act[n], chunk_id, chunk_data).storage],
               recs |-> <<<<n, chunk_id>>>>]
         ELSE ReplicateToUnchecked(st, act, n + 1, node_id, chunk_id, chunk_data)

\* Lines 88-93: the first node from n on, in self.nodes order, that is active, is
\* not the source node and accepts the chunk; recs is the record appended, if any.
RECURSIVE ReplicateTo(_, _, _, _, _, _)
ReplicateTo(st, act, n, node_id, chunk_id, chunk_data) ==
  IF n = NumNodes THEN [storage |-> st, recs |-> <<>>]
  ELSE IF act[n] /\ n # node_id
         THEN LET r == StoreChunk(st[n], act[n], chunk_id, chunk_data)
              IN  IF r.ok
                    THEN [storage |-> [st EXCEPT ![n] = r.storage],
                          recs |-> <<<<n, chunk_id>>>>]
                    ELSE ReplicateTo(st, act, n + 1, node_id, chunk_id, chunk_data)
         ELSE ReplicateTo(st, act, n + 1, node_id, chunk_id, chunk_data)

\* Lines 85-93 for one record (node_id, cid) of the list being iterated.
RecoverRecord(st, act, rec, chunk_id, failed_node_id) ==
  IF rec[2] = chunk_id /\ rec[1] # failed_node_id
    THEN LET chunk_data == RetrieveChunk(st[rec[1]], act[rec[1]], chunk_id)
         IN  IF Truthy(chunk_data)
               THEN ReplicateTo(st, act, 0, rec[1], chunk_id, chunk_data.data)
               ELSE [storage |-> st, recs |-> <<>>]
    ELSE [storage |-> st, recs |-> <<>>]

DropChunkRecords(recs, failed_node_id, chunk_id) ==
  SelectSeq(recs, LAMBDA r : r[2] # chunk_id)

\* Line 94: [(nid, cid) for nid, cid in metadata[file_hash] if nid != failed_node_id]
DropNodeRecords(recs, failed_node_id, chunk_id) ==
  SelectSeq(recs, LAMBDA r : r[1] # failed_node_id)

----------------------------------------------------------------------------
(* State machine *)

Idle == [pc |-> "idle", node |-> -1, affected |-> <<>>, k |-> 0, j |-> 0]
NoPre == [valid |-> FALSE]
NotUploaded == [ups |-> 0, content |-> <<>>]

\* The request threads and a thread that is in no call.
Threads == {1, 2}
ThreadIdle ==
  [pc |-> "idle", h |-> <<>>, chunks |-> <<>>, i |-> 0, order |-> <<>>, k |-> 0,
   replicas_placed |-> 0, stored |-> {}, stale |-> FALSE]

Init ==
  /\ active = [n \in Nodes |-> TRUE]
  /\ storage = [n \in Nodes |-> EmptyStorage]
  /\ metadata = <<>>
  /\ mon = Idle
  /\ pre = NoPre
  /\ calls = [uploads |-> 0, fails |-> 0]
  /\ uploaded = [nm \in Names |-> NotUploaded]
  /\ last = [op |-> "init"]
  /\ thr = [t \in Threads |-> ThreadIdle]

\* The snapshot of a finished recovery is dropped by the next call.
PreAfterCall(isUpload) ==
  IF ~pre.valid \/ mon.pc = "idle" THEN NoPre
  ELSE IF isUpload THEN [pre EXCEPT !.quiet = FALSE] ELSE pre

\* A request thread runs upload_file(filename, content).
Upload(filename, content) ==
  LET h == file_hash_of(filename)
      r == UploadFile(storage, active, metadata, filename, content)
  IN  /\ mon.pc # "inner"
      /\ calls.uploads < MaxUploads
      /\ MetaLen(metadata, h) + ReplicationFactor * Len(SplitChunks(content)) <= MaxMeta
      /\ calls' = [calls EXCEPT !.uploads = calls.uploads + 1]
      /\ storage' = r.storage
      /\ metadata' = r.metadata
      /\ uploaded' = [uploaded EXCEPT ![filename] =
                        [ups |-> Min(uploaded[filename].ups + 1, 2), content |-> content]]
      /\ pre' = PreAfterCall(TRUE)
      /\ last' = [op |-> "upload", filename |-> filename, content |-> content,
                  result |-> h, placed |-> r.placed,
                  fresh |-> (\A n \in Nodes : active[n] /\ Load(storage, n) = 0)]
      /\ UNCHANGED <<active, mon, thr>>

\* A request thread runs download_file(file_hash).
Download(file_hash) ==
  /\ mon.pc # "inner"
  /\ last' = [op |-> "download", file_hash |-> file_hash,
              result |-> DownloadFile(storage, active, metadata, file_hash),
              sorted_chunks |-> DownloadSorted(storage, active, metadata, file_hash),
              prev |-> IF last.op = "upload"
                         THEN [op |-> "upload", filename |-> last.filename,
                               content |-> last.content]
                         ELSE [op |-> "other"]]
  /\ metadata' = DownloadMeta(metadata, file_hash)
  /\ pre' = PreAfterCall(FALSE)
  /\ UNCHANGED <<active, storage, mon, calls, uploaded, thr>>

\* A request thread runs get_status().
Status ==
  /\ mon.pc # "inner"
  /\ last' = [op |-> "get_status", result |-> GetStatus(storage, active, metadata)]
  /\ pre' = PreAfterCall(FALSE)
  /\ UNCHANGED <<active, storage, metadata, mon, calls, uploaded, thr>>

\* monitor_nodes, lines 74-76: the random draw picks node n and node.fail() runs.
MonitorFail(n) ==
  /\ mon.pc = "idle"
  /\ calls.fails < MaxFails
  /\ calls' = [calls EXCEPT !.fails = calls.fails + 1]
  /\ active' = NodeFail(active, n)
  /\ mon' = [Idle EXCEPT !.pc = "recover", !.node = n]
  /\ pre' = [valid |-> TRUE, quiet |-> TRUE, node |-> n, active |-> active,
             storage |-> storage, metadata |-> metadata]
  /\ last' = [op |-> "fail", node |-> n, was_active |-> active[n]]
  /\ UNCHANGED <<storage, metadata, uploaded, thr>>

RecoverDone == [op |-> "recover_data", node |-> mon.node]

\* recover_data, lines 81-82: the list of affected chunks is built.
RecoverBegin ==
  /\ mon.pc = "recover"
  /\ LET aff == AffectedChunks(metadata, 1, mon.node)
     IN  IF aff = <<>>
           THEN mon' = Idle /\ last' = RecoverDone
           ELSE /\ mon' = [mon EXCEPT !.pc = "inner", !.affected = aff, !.k = 1, !.j = 1]
                /\ last' = [op |-> "recovering", node |-> mon.node]
  /\ UNCHANGED <<active, storage, metadata, pre, calls, uploaded, thr>>

\* recover_data, lines 84-93: one iteration of the loop over metadata[file_hash],
\* which sees the records appended while it runs.
RecoverStep ==
  /\ mon.pc = "inner"
  /\ LET h == mon.affected[mon.k][1]
         chunk_id == mon.affected[mon.k][2]
         recs == MetaGet(metadata, h)
     IN  /\ mon.j <= Len(recs)
         /\ LET r == RecoverRecord(storage, active, recs[mon.j], chunk_id, mon.node)
            IN  /\ Len(recs) + Len(r.recs) <= MaxMeta
                /\ storage' = r.storage
                /\ metadata' = MetaAppendAll(metadata, h, r.recs)
                /\ mon' = [mon EXCEPT !.j = mon.j + 1]
  /\ UNCHANGED <<active, pre, calls, uploaded, last, thr>>

\* recover_data, line 94, at the end of the loop over metadata[file_hash]; then the
\* next affected chunk, or the return to monitor_nodes.
RecoverFilter ==
  /\ mon.pc = "inner"
  /\ LET h == mon.affected[mon.k][1]
         chunk_id == mon.affected[mon.k][2]
         recs == MetaGet(metadata, h)
     IN  /\ mon.j > Len(recs)
         /\ metadata' = MetaSet(metadata, h, DropNodeRecords(recs, mon.node, chunk_id))
         /\ IF mon.k = Len(mon.affected)
              THEN mon' = Idle /\ last' = RecoverDone
              ELSE mon' = [mon EXCEPT !.k = mon.k + 1, !.j = 1] /\ UNCHANGED last
  /\ UNCHANGED <<active, storage, pre, calls, uploaded, thr>>

Next ==
  \/ \E filename \in Names, content \in Contents : Upload(filename, content)
  \/ \E file_hash \in Hashes : Download(file_hash)
  \/ Status
  \/ \E n \in Nodes : MonitorFail(n)
  \/ RecoverBegin
  \/ RecoverStep
  \/ RecoverFilter

Spec == Init /\ [][Next]_vars

----------------------------------------------------------------------------
(* Vocabulary of the properties *)

\* The records of file h in the metadata md (none when h is no key).
RecordsOf(md, h) == IF h \in MetaKeys(md) THEN MetaGet(md, h) ELSE <<>>

\* The nodes that md records for chunk_id of file h and that are active and hold it.
ActiveReplicas(st, act, md, h, chunk_id) ==
  LET recs == RecordsOf(md, h)
  IN  {m \in Nodes : /\ \E j \in 1 .. Len(recs) : recs[j] = <<m, chunk_id>>
                     /\ act[m]
                     /\ chunk_id \in DOMAIN st[m]}

\* The chunk ids md records for file h.
ChunkIdsOf(md, h) == LET recs == RecordsOf(md, h) IN {recs[j][2] : j \in 1 .. Len(recs)}

NumChunks(content) == Len(SplitChunks(content))

\* C1: a download_file that directly follows upload_file(name, content), no node
\* having failed in between, returns exactly content (never None).
C1_RoundTrip ==
  (last.op = "download" /\ last.prev.op = "upload"
     /\ last.file_hash = file_hash_of(last.prev.filename))
    => last.result = Some(last.prev.content)

\* C2: download_file of a file uploaded (once) with N chunks returns None or the
\* concatenation of all N chunks, never bytes that omit a chunk.
C2_AllOrNothing ==
  \A nm \in Names :
    (last.op = "download" /\ last.file_hash = file_hash_of(nm) /\ uploaded[nm].ups = 1)
      => (last.result.isNone \/ last.result.data = uploaded[nm].content)

\* C3: when recover_data(n) has completed, every chunk that had at least two
\* active replicas just before n was failed is still recorded on an active node
\* other than n that holds it (with the bytes of one of those replicas).
C3_NoDataLoss ==
  (last.op = "recover_data" /\ pre.valid)
    => \A h \in Hashes : \A chunk_id \in ChunkIdsOf(pre.metadata, h) :
         LET before == ActiveReplicas(pre.storage, pre.active, pre.metadata, h, chunk_id)
         IN  Cardinality(before) >= 2
               => \E m \in ActiveReplicas(storage, active, metadata, h, chunk_id) :
                    /\ m # last.node
                    /\ pre.quiet =>
                         storage[m][chunk_id] \in {pre.storage[x][chunk_id] : x \in before}

\* A recovery of a node that held one of two or more active replicas of a chunk
\* has completed.
C3_Witness ==
  /\ last.op = "recover_data"
  /\ pre.valid
  /\ pre.quiet
  /\ pre.active[last.node]
  /\ \E h \in Hashes : \E chunk_id \in ChunkIdsOf(pre.metadata, h) :
       LET before == ActiveReplicas(pre.storage, pre.active, pre.metadata, h, chunk_id)
       IN  last.node \in before /\ Cardinality(before) >= 2

\* No record of the node whose recovery has just completed is left in any list.
NoRecordOfRecovered ==
  \A h \in Hashes :
    \A j \in 1 .. Len(RecordsOf(metadata, h)) : RecordsOf(metadata, h)[j][1] # last.node

\* Every chunk of the latest upload of nm had, before the failure, an active
\* replica on a node other than the failed one.
EveryChunkSurvives(nm) ==
  LET h == file_hash_of(nm)
      n == NumChunks(uploaded[nm].content)
  IN  /\ uploaded[nm].ups >= 1
      /\ n >= 1
      /\ \A i \in 0 .. (n - 1) :
           \E m \in ActiveReplicas(pre.storage, pre.active, pre.metadata, h,
                                   chunk_id_of(h, i)) : m # pre.node

\* C4: when recover_data(n) has completed, no metadata list holds a record of n,
\* and a file whose every chunk had a surviving replica, and which downloaded with
\* the uploaded content before the failure, still does.
C4_RecoveredAndReadable ==
  (last.op = "recover_data" /\ pre.valid /\ pre.quiet)
    => /\ NoRecordOfRecovered
       /\ \A nm \in Names :
            (/\ EveryChunkSurvives(nm)
             /\ DownloadFile(pre.storage, pre.active, pre.metadata, file_hash_of(nm))
                  = Some(uploaded[nm].content))
              => DownloadFile(storage, active, metadata, file_hash_of(nm))
                   = Some(uploaded[nm].content)

\* The chunk ids and chunk contents the uploads can produce.
MaxChunks == (MaxLen + ChunkSize - 1) \div ChunkSize
AllChunkIds == {chunk_id_of(h, i) : h \in Hashes, i \in 0 .. (MaxChunks - 1)}
AllChunkData == UNION {{SplitChunks(c)[k] : k \in 1 .. NumChunks(c)} : c \in Contents}

\* C5: no step takes a node above its capacity or changes the storage of an
\* inactive node; store_chunk on a full or inactive node returns False and leaves
\* the storage as it is; retrieve_chunk on an inactive node returns None.
C5_NodeBounds ==
  [][\A n \in Nodes :
       /\ Load(storage, n) <= Capacity
       /\ Load(storage', n) <= Capacity
       /\ ~active[n] => storage'[n] = storage[n]
       /\ \A chunk_id \in AllChunkIds :
            /\ ~active[n] => RetrieveChunk(storage[n], active[n], chunk_id) = None
            /\ \A data \in AllChunkData :
                 (Load(storage, n) >= Capacity \/ ~active[n])
                   => StoreChunk(storage[n], active[n], chunk_id, data)
                        = [ok |-> FALSE, storage |-> storage[n]]]_vars

\* An upload has run while one node was inactive and another full, and a store
\* of one of its chunks was refused.
C5_Witness ==
  /\ last.op = "upload"
  /\ \E n \in Nodes : ~active[n] /\ Load(storage, n) > 0
  /\ \E n \in Nodes : active[n] /\ Load(storage, n) = Capacity
  /\ \E i \in 1 .. Len(last.placed) : Len(last.placed[i].recs) < ReplicationFactor

\* C6: no metadata list holds the same (node_id, chunk_id) pair twice.
C6_UniqueRecords ==
  \A h \in Hashes :
    LET recs == RecordsOf(metadata, h)
    IN  \A i, j \in 1 .. Len(recs) : recs[i] = recs[j] => i = j

\* C7: when recover_data(n) has completed, a chunk that had replication_factor
\* active replicas before n failed, one of them on n, and for which an active node
\* without the chunk had free capacity, is recorded on exactly replication_factor
\* active nodes that hold it.
C7_ReplicationRestored ==
  (last.op = "recover_data" /\ pre.valid /\ pre.quiet)
    => \A h \in Hashes : \A chunk_id \in ChunkIdsOf(pre.metadata, h) :
         LET before == ActiveReplicas(pre.storage, pre.active, pre.metadata, h, chunk_id)
         IN  (/\ Cardinality(before) = ReplicationFactor
              /\ pre.node \in before
              /\ \E x \in Nodes \ {pre.node} :
                   /\ pre.active[x]
                   /\ chunk_id \notin DOMAIN pre.storage[x]
                   /\ Load(pre.storage, x) < Capacity)
               => Cardinality(ActiveReplicas(storage, active, metadata, h, chunk_id))
                    = ReplicationFactor

RECURSIVE ConcatUpTo(_, _)
ConcatUpTo(items, k) == IF k = 0 THEN <<>> ELSE ConcatUpTo(items, k - 1) \o items[k].data

Reverse(s) == [k \in 1 .. Len(s) |-> s[Len(s) + 1 - k]]

SeqNumbers(items) == [k \in 1 .. Len(items) |-> SeqNumber(items[k].chunk_id)]

\* C8: the bytes download_file returns are the fetched chunks in strictly
\* increasing sequence number, each retrievable chunk once, in whatever order the
\* records stand in the metadata list.
C8_ReassemblyOrder ==
  (last.op = "download" /\ ~last.result.isNone)
    => LET sc == last.sorted_chunks
           h == last.file_hash
           recs == RecordsOf(metadata, h)
       IN  /\ \A i \in 1 .. (Len(sc) - 1) :
                SeqNumber(sc[i].chunk_id) < SeqNumber(sc[i + 1].chunk_id)
           /\ {sc[i].chunk_id : i \in 1 .. Len(sc)}
                = {c \in ChunkIdsOf(metadata, h) :
                     ActiveReplicas(storage, active, metadata, h, c) # {}}
           /\ \A i \in 1 .. Len(sc) :
                \E m \in ActiveReplicas(storage, active, metadata, h, sc[i].chunk_id) :
                  sc[i].data = storage[m][sc[i].chunk_id]
           /\ last.result.data = ConcatUpTo(sc, Len(sc))
           /\ SeqNumbers(SortedChunks(FetchChunks(storage, active, Reverse(recs), 1, <<>>)))
                = SeqNumbers(sc)

\* A download has returned two chunks whose first records stand in the metadata
\* list in decreasing sequence number.
C8_Witness ==
  /\ last.op = "download"
  /\ ~last.result.isNone
  /\ Len(last.sorted_chunks) >= 2
  /\ LET d == FetchChunks(storage, active, RecordsOf(metadata, last.file_hash), 1, <<>>)
     IN  \E i \in 1 .. (Len(d) - 1) : SeqNumber(d[i].chunk_id) > SeqNumber(d[i + 1].chunk_id)

RECURSIVE PlacedRecords(_, _)
PlacedRecords(placed, k) ==
  IF k = 0 THEN <<>> ELSE PlacedRecords(placed, k - 1) \o placed[k].recs

\* C9: one upload_file call appends, for each chunk, min(replication_factor,
\* number of nodes active and below capacity when the chunk is placed) records, on
\* pairwise distinct nodes; on a fresh engine with room for every chunk on every
\* node that is replication_factor records per chunk.
C9_ReplicaCount ==
  [][(last'.op = "upload" /\ calls'.uploads = calls.uploads + 1)
       => LET h == last'.result
              placed == last'.placed
              n == NumChunks(last'.content)
          IN  /\ Len(placed) = n
              /\ RecordsOf(metadata', h)
                   = RecordsOf(metadata, h) \o PlacedRecords(placed, n)
              /\ \A i \in 1 .. n :
                   LET recs == placed[i].recs
                   IN  /\ Len(recs) = Min(ReplicationFactor, placed[i].avail)
                       /\ \A j \in 1 .. Len(recs) : recs[j][2] = chunk_id_of(h, i - 1)
                       /\ \A j, k \in 1 .. Len(recs) : recs[j][1] = recs[k][1] => j = k
              /\ (last'.fresh /\ NumNodes >= ReplicationFactor /\ n <= Capacity)
                   => /\ Len(RecordsOf(metadata', h)) = ReplicationFactor * n
                      /\ \A i \in 1 .. n : Len(placed[i].recs) = ReplicationFactor]_vars

\* An upload of two chunks has placed one of them on fewer than replication_factor
\* nodes because only one node accepted.
C9_Witness ==
  /\ last.op = "upload"
  /\ Len(last.placed) = 2
  /\ \E i \in 1 .. 2 : last.placed[i].avail = 1 /\ Len(last.placed[i].recs) = 1
  /\ \E i \in 1 .. 2 : Len(last.placed[i].recs) = ReplicationFactor

\* C10: fail() on a node that has already failed changes neither the active
\* flags, nor any storage, nor the metadata, nor the get_status() snapshot.
C10_FailIdempotent ==
  [][(last'.op = "fail" /\ calls'.fails = calls.fails + 1 /\ ~active[last'.node])
       => /\ active' = active
          /\ storage' = storage
          /\ metadata' = metadata
          /\ GetStatus(storage', active', metadata') = GetStatus(storage, active, metadata)
          /\ NodeFail(active', last'.node) = active']_vars

\* fail() has run on a node that had failed before and holds chunks.
C10_Witness ==
  /\ last.op = "fail"
  /\ ~last.was_active
  /\ ~active[last.node]
  /\ Load(storage, last.node) > 0

\* A step of download_file or get_status.
ReadStep == last'.op \in {"download", "get_status"} /\ mon' = mon /\ calls' = calls

\* The names whose hash is file_hash and that were never uploaded.
NeverUploaded(file_hash) ==
  {nm \in Names : file_hash_of(nm) = file_hash /\ uploaded[nm].ups = 0}

\* C11: get_status() and download_file(id) change no node's storage or active
\* flag and nothing of the metadata, for known and unknown ids; download_file of
\* an id never uploaded returns None and creates no metadata key for it, and
\* get_status() lists exactly the keys of the metadata, so no such id.
C11_ReadOnly ==
  [][ReadStep
       => /\ active' = active
          /\ storage' = storage
          /\ metadata' = metadata
          /\ (last'.op = "download" /\ NeverUploaded(last'.file_hash) # {})
               => /\ last'.result = None
                  /\ last'.file_hash \notin MetaKeys(metadata')
          /\ last'.op = "get_status"
               => LET files == last'.result.files
                  IN  /\ last'.result = GetStatus(storage', active', metadata')
                      /\ {files[k][1] : k \in 1 .. Len(files)} = MetaKeys(metadata')
                      /\ \A k \in 1 .. Len(files) : NeverUploaded(files[k][1]) = {}]_vars

\* download_file of an id never uploaded has returned None while another file is
\* stored and a node holding chunks is inactive.
C11_Witness ==
  /\ last.op = "download"
  /\ NeverUploaded(last.file_hash) # {}
  /\ last.result = None
  /\ metadata # <<>>
  /\ \E n \in Nodes : ~active[n] /\ Load(storage, n) > 0

----------------------------------------------------------------------------
(* Termination of recover_data                                              *)
(*                                                                          *)
(* The loop of lines 84-93 reads metadata[file_hash] by position and never  *)
(* looks back: what it does from position j on depends on the records from  *)
(* j on, on the storages and on the active flags.  LiveSpec runs the same   *)
(* loop and, once a record has been visited, drops it from the list when an *)
(* equal record was visited before it.  The records ahead of the loop, and  *)
(* so every later iteration and whether the loop ends, are as in the code,  *)
(* and a loop that runs for ever returns to a state it has been in.         *)

\* recs without its record at position j when an equal record stands before it.
DropRepeated(recs, j) ==
  IF \E i \in 1 .. (j - 1) : recs[i] = recs[j]
    THEN SubSeq(recs, 1, j - 1) \o SubSeq(recs, j + 1, Len(recs))
    ELSE recs

\* recover_data, lines 84-93: one iteration of the loop over metadata[file_hash].
RecoverStepLive ==
  /\ mon.pc = "inner"
  /\ LET h == mon.affected[mon.k][1]
         chunk_id == mon.affected[mon.k][2]
         recs == MetaGet(metadata, h)
     IN  /\ mon.j <= Len(recs)
         /\ LET r == RecoverRecord(storage, active, recs[mon.j], chunk_id, mon.node)
                appended == recs \o r.recs
                kept == DropRepeated(appended, mon.j)
            IN  /\ storage' = r.storage
                /\ metadata' = MetaSet(metadata, h, kept)
                /\ mon' = [mon EXCEPT !.j = IF kept = appended THEN mon.j + 1 ELSE mon.j]
  /\ UNCHANGED <<active, pre, calls, uploaded, last, thr>>

LiveNext ==
  \/ \E filename \in Names, content \in Contents : Upload(filename, content)
  \/ \E file_hash \in Hashes : Download(file_hash)
  \/ Status
  \/ \E n \in Nodes : MonitorFail(n)
  \/ RecoverBegin
  \/ RecoverStepLive
  \/ RecoverFilter

\* The monitor thread runs monitor_nodes until the process ends (lines 107-112):
\* a call of recover_data that can take its next step takes it.
MonitorRuns ==
  /\ WF_vars(RecoverBegin)
  /\ WF_vars(RecoverStepLive)
  /\ WF_vars(RecoverFilter)

LiveSpec == Init /\ [][LiveNext]_vars /\ MonitorRuns

\* C12: every call of recover_data returns: once the monitor has failed a node
\* and entered recover_data, it gets back to monitor_nodes, where it goes on to
\* the next node and the next tick.
C12_RecoveryTerminates == (mon.pc # "idle") ~> (mon.pc = "idle")

----------------------------------------------------------------------------

\* The step of recover_data that rewrites metadata[file_hash] (line 94).
FilterStep == mon.pc = "inner" /\ (mon'.pc = "idle" \/ mon'.k = mon.k + 1)

\* C13: when recover_data(n) removes a record (n, chunk_id) from a list, the loop
\* that places and records a replacement for that chunk_id has run before: chunk_id
\* is one of the affected chunks handled so far, also when n held several chunks
\* of the file.
C13_AddBeforeRemove ==
  [][FilterStep
       => LET h == mon.affected[mon.k][1]
              recs == RecordsOf(metadata, h)
          IN  \A j \in 1 .. Len(recs) :
                recs[j][1] = mon.node
                  => \E i \in 1 .. mon.k : mon.affected[i] = <<h, recs[j][2]>>]_vars


\* Node m ranks before node n: fewer stored chunks, or as many and a smaller id.
RanksBefore(loads, m, n) == loads[m] < loads[n] \/ (loads[m] = loads[n] /\ m < n)

\* The first replication_factor nodes of `accepting` in that ranking.
FirstAccepting(loads, accepting) ==
  {n \in accepting :
     Cardinality({m \in accepting : RanksBefore(loads, m, n)}) < ReplicationFactor}

\* The nodes of a sequence of records.
NodesOf(recs) == {recs[j][1] : j \in 1 .. Len(recs)}

\* C14: for each chunk of an upload, the replicas go to the first
\* replication_factor accepting nodes in ascending order of the chunk counts as
\* they are when the placement of that chunk starts, ties by ascending node id,
\* and are recorded in that order; the counts of a later chunk include the
\* replicas of the earlier chunks of the same upload.
C14_LeastLoaded ==
  [][(last'.op = "upload" /\ calls'.uploads = calls.uploads + 1)
       => LET placed == last'.placed
              h == last'.result
              \* the chunk counts after the placement of chunk i (0: before the upload)
              After(i) ==
                [n \in Nodes |->
                   IF i = 0 THEN Load(storage, n)
                   ELSE placed[i].loads[n]
                          + (IF /\ n \in NodesOf(placed[i].recs)
                                /\ chunk_id_of(h, i - 1) \notin DOMAIN storage[n]
                               THEN 1 ELSE 0)]
          IN  /\ \A i \in 1 .. Len(placed) :
                   LET p == placed[i]
                   IN  /\ p.loads = After(i - 1)
                       /\ p.accepting = {n \in Nodes : active[n] /\ p.loads[n] < Capacity}
                       /\ NodesOf(p.recs) = FirstAccepting(p.loads, p.accepting)
                       /\ \A j, k \in 1 .. Len(p.recs) :
                            j < k => RanksBefore(p.loads, p.recs[j][1], p.recs[k][1])
              /\ \A n \in Nodes : Load(storage', n) = After(Len(placed))[n]]_vars

\* An upload of two chunks has run in which a node that did not accept ranked
\* before a chosen one, and the second chunk went to other nodes than the ranking
\* of the first chunk would have given it.
C14_Witness ==
  /\ last.op = "upload"
  /\ Len(last.placed) = 2
  /\ LET p1 == last.placed[1]
         p2 == last.placed[2]
     IN  /\ Len(p2.recs) = ReplicationFactor
         /\ NodesOf(p2.recs) # FirstAccepting(p1.loads, p2.accepting)
         /\ \E m \in Nodes \ p2.accepting :
              \E n \in NodesOf(p2.recs) : RanksBefore(p2.loads, m, n)
         /\ \E m, n \in Nodes : p2.loads[m] = p2.loads[n] /\ m # n /\ n \in NodesOf(p2.recs)

----------------------------------------------------------------------------
(* Request threads and the monitor thread running at the same time           *)
(*                                                                          *)
(* The engine takes no lock.  RaceSpec follows a request thread through      *)
(* upload_file statement by statement: the test of store_chunk (line 18),    *)
(* its write (line 19), the evaluation of metadata[file_hash] and the append *)
(* to the list it gave (line 47).  The monitor's recover_data runs as in     *)
(* Spec, except that line 94 is two steps: building the new list and binding *)
(* it to the key.  An append to a list that is no longer bound to the key    *)
(* does not show in the metadata.                                            *)

\* Bound of the search under RaceSpec: the number of fail() calls.
MaxRaceFails == 1

\* What the request threads upload: thread 1 the file "a" of one chunk or of as
\* many as MaxLen gives, thread 2 the file "b" of one chunk.
RaceUploads ==
  {<<1, "a", ContentOf(1, 0)>>, <<1, "a", ContentOf(MaxLen, 0)>>, <<2, "b", ContentOf(1, 0)>>}

\* upload_file, lines 42-45, for chunk i: the ranking is taken, or the call returns.
StartChunk(T, i, st) ==
  IF i > Len(T.chunks) THEN [T EXCEPT !.pc = "done"]
  ELSE [T EXCEPT !.pc = "check", !.i = i, !.order = SortedByLoad(st), !.k = 1,
                 !.replicas_placed = 0]

\* The for loop of line 45 goes on to its next node, or ends.
NextNode(T, st) ==
  IF T.k < Len(T.order) THEN [T EXCEPT !.pc = "check", !.k = T.k + 1]
  ELSE StartChunk(T, T.i + 1, st)

\* upload_file is called: lines 39-45.
ThreadBegin(t, filename, content) ==
  /\ thr[t].pc \in {"idle", "done"}
  /\ calls.uploads < MaxUploads
  /\ calls' = [calls EXCEPT !.uploads = calls.uploads + 1]
  /\ thr' = [thr EXCEPT ![t] =
               StartChunk([ThreadIdle EXCEPT !.h = file_hash_of(filename),
                                             !.chunks = SplitChunks(content)],
                          1, storage)]
  /\ UNCHANGED <<active, storage, metadata, mon, pre, uploaded, last>>

\* store_chunk, line 18: the test of the capacity and of the active flag.
ThreadCheck(t) ==
  LET T == thr[t]
      n == T.order[T.k]
  IN  /\ T.pc = "check"
      /\ thr' = [thr EXCEPT ![t] =
                   IF Load(storage, n) < Capacity /\ active[n]
                     THEN [T EXCEPT !.pc = "write"]
                     ELSE NextNode(T, storage)]
      /\ UNCHANGED <<active, storage, metadata, mon, pre, calls, uploaded, last>>

\* store_chunk, line 19: the write, after a test that passed.
ThreadWrite(t) ==
  LET T == thr[t]
      n == T.order[T.k]
      chunk_id == chunk_id_of(T.h, T.i - 1)
  IN  /\ T.pc = "write"
      /\ storage' = [storage EXCEPT ![n] = (chunk_id :> T.chunks[T.i]) @@ storage[n]]
      /\ thr' = [thr EXCEPT ![t] =
                   [T EXCEPT !.pc = "getlist", !.stored = T.stored \cup {<<n, chunk_id>>}]]
      /\ UNCHANGED <<active, metadata, mon, pre, calls, uploaded, last>>

\* Line 47, self.metadata[file_hash]: the thread gets the list bound to the key.
ThreadGetList(t) ==
  LET T == thr[t]
  IN  /\ T.pc = "getlist"
      /\ metadata' = MetaSubscript(metadata, T.h)
      /\ thr' = [thr EXCEPT ![t] = [T EXCEPT !.pc = "append", !.stale = FALSE]]
      /\ UNCHANGED <<active, storage, mon, pre, calls, uploaded, last>>

\* Line 47, .append(...), and lines 48-50.
ThreadAppend(t) ==
  LET T == thr[t]
      rec == <<T.order[T.k], chunk_id_of(T.h, T.i - 1)>>
      T2 == [T EXCEPT !.replicas_placed = T.replicas_placed + 1]
  IN  /\ T.pc = "append"
      /\ metadata' = IF T.stale THEN metadata ELSE MetaAppend(metadata, T.h, rec)
      /\ thr' = [thr EXCEPT ![t] =
                   IF T2.replicas_placed = ReplicationFactor
                     THEN StartChunk(T2, T.i + 1, storage)
                     ELSE NextNode(T2, storage)]
      /\ UNCHANGED <<active, storage, mon, pre, calls, uploaded, last>>

\* monitor_nodes, lines 74-76: node.fail() on node n.
RaceFail(n) ==
  /\ mon.pc = "idle"
  /\ calls.fails < MaxRaceFails
  /\ calls' = [calls EXCEPT !.fails = calls.fails + 1]
  /\ active' = NodeFail(active, n)
  /\ mon' = [Idle EXCEPT !.pc = "recover", !.node = n]
  /\ last' = [op |-> "fail", node |-> n, was_active |-> active[n]]
  /\ UNCHANGED <<storage, metadata, pre, uploaded, thr>>

\* Line 94, right-hand side: the list without the records of the failed node.
RaceFilterRead ==
  /\ mon.pc = "inner"
  /\ LET h == mon.affected[mon.k][1]
         chunk_id == mon.affected[mon.k][2]
         recs == MetaGet(metadata, h)
     IN  /\ mon.j > Len(recs)
         /\ mon' = [pc |-> "assign", node |-> mon.node, affected |-> mon.affected,
                    k |-> mon.k, j |-> mon.j,
                    new_list |-> DropNodeRecords(recs, mon.node, chunk_id)]
  /\ UNCHANGED <<active, storage, metadata, pre, calls, uploaded, last, thr>>

\* Line 94, the assignment: the new list is bound to the key; a thread that holds
\* the list bound before appends to that one.
RaceFilterWrite ==
  /\ mon.pc = "assign"
  /\ LET h == mon.affected[mon.k][1]
     IN  /\ metadata' = MetaSet(metadata, h, mon.new_list)
         /\ thr' = [t \in Threads |->
                      IF thr[t].pc = "append" /\ thr[t].h = h
                        THEN [thr[t] EXCEPT !.stale = TRUE] ELSE thr[t]]
  /\ IF mon.k = Len(mon.affected)
       THEN mon' = Idle /\ last' = RecoverDone
       ELSE /\ mon' = [pc |-> "inner", node |-> mon.node, affected |-> mon.affected,
                       k |-> mon.k + 1, j |-> 1]
            /\ UNCHANGED last
  /\ UNCHANGED <<active, storage, pre, calls, uploaded>>

RaceNext ==
  \/ \E u \in RaceUploads : ThreadBegin(u[1], u[2], u[3])
  \/ \E t \in Threads : ThreadCheck(t)
  \/ \E t \in Threads : ThreadWrite(t)
  \/ \E t \in Threads : ThreadGetList(t)
  \/ \E t \in Threads : ThreadAppend(t)
  \/ \E n \in Nodes : RaceFail(n)
  \/ RecoverBegin
  \/ RecoverStep
  \/ RaceFilterRead
  \/ RaceFilterWrite

RaceSpec == Init /\ [][RaceNext]_vars


\* C15: once an upload_file call has returned and the monitor is in no recovery,
\* every replica the call stored on a node that is still active is recorded in
\* the metadata list of the file, and the list holds no record of a failed node
\* (every failed node has been recovered by then).
C15_NoLostRecord ==
  \A t \in Threads :
    (thr[t].pc = "done" /\ mon.pc = "idle")
      => LET recs == RecordsOf(metadata, thr[t].h)
         IN  /\ \A rec \in thr[t].stored :
                  active[rec[1]] => \E j \in 1 .. Len(recs) : recs[j] = rec
             /\ \A j \in 1 .. Len(recs) : active[recs[j][1]]

\* C16: whatever the interleaving of the store_chunk calls of the request
\* threads with each other and with the monitor, no node ever holds more than
\* capacity chunks, and no step changes the storage of a node that fail() has
\* been applied to.
C16_SerializedStores ==
  [][\A n \in Nodes :
       /\ Load(storage', n) <= Capacity
       /\ ~active[n] => storage'[n] = storage[n]]_vars

----------------------------------------------------------------------------

\* C17: the monitor calls fail() and then recover_data(n) only for a node n that
\* is active at that moment, and only when the recovery of the node before has
\* returned.
C17_MonitorActiveOnly ==
  [][(last'.op = "fail" /\ calls'.fails = calls.fails + 1)
       => /\ active[last'.node]
          /\ mon.pc = "idle"
          /\ mon'.pc = "recover"
          /\ mon'.node = last'.node]_vars

\* The metadata names nodes that exist and hold the chunk recorded.
RecordsStored(st, md) ==
  \A h \in MetaKeys(md) :
    \A j \in 1 .. Len(MetaGet(md, h)) :
      LET rec == MetaGet(md, h)[j]
      IN  rec[1] \in Nodes /\ rec[2] \in DOMAIN st[rec[1]]

\* C18: every record (node_id, chunk_id) of every metadata list names a node
\* 0 .. num_nodes - 1 whose storage holds chunk_id, before and after every step
\* (so a record appended by a step is of a chunk stored by then), and no step
\* takes a chunk out of a node's storage.
C18_MetadataStorage ==
  [][/\ RecordsStored(storage, metadata)
     /\ RecordsStored(storage', metadata')
     /\ \A n \in Nodes : DOMAIN storage[n] \subseteq DOMAIN storage'[n]]_vars

\* A recovery that appended a record has completed while a full node and an
\* inactive node holding chunks exist.
C18_Witness ==
  /\ last.op = "recover_data"
  /\ pre.valid
  /\ \E h \in Hashes :
       \E j \in 1 .. Len(RecordsOf(metadata, h)) :
         \A i \in 1 .. Len(RecordsOf(pre.metadata, h)) :
           RecordsOf(pre.metadata, h)[i] # RecordsOf(metadata, h)[j]
  /\ \E n \in Nodes : active[n] /\ Load(storage, n) = Capacity
  /\ \E n \in Nodes : ~active[n] /\ Load(storage, n) > 0

\* C19: all active nodes that the metadata records for a chunk_id, and that hold
\* it, hold the same bytes for it.
C19_ReplicaContent ==
  \A h \in Hashes : \A chunk_id \in ChunkIdsOf(metadata, h) :
    \A m, n \in ActiveReplicas(storage, active, metadata, h, chunk_id) :
      storage[m][chunk_id] = storage[n][chunk_id]

====
